---- MODULE Spec2Model ----
(***************************************************************************)
(* AzadiDNSTester: the concurrent probing engine of AzadiDNSTester.py.     *)
(*                                                                         *)
(* One run of check_dns_servers is modelled as a main thread (load,        *)
(* configure, write_header, submit, as_completed loop, report) and one     *)
(* probe task per entry of servers, executed by the threads of a           *)
(* ThreadPoolExecutor(max_workers=workers).  The ledger working_dns.txt is  *)
(* a sequence of lines shared by all runs; file_lock guards every write.   *)
(*                                                                         *)
(* An address is a sequence of parts, a part is a sequence of decimal      *)
(* digits ("1.1.1.08" is <<<<1>>,<<1>>,<<1>>,<<0,8>>>>).  Response times    *)
(* are counted in half milliseconds, so that the ":.0f" formatting of the  *)
(* ledger line is a rounding and not the identity.                         *)
(***************************************************************************)
EXTENDS Integers, Sequences, FiniteSets, TLC

\* ------------------------------------------------------------- bounds
\* Longest input file, in address-like tokens.
MaxTokens == 2
\* Largest worker count the user is let to enter in the model.
MaxWorkers == 2
\* Number of runs of the program in succession on the same ledger file.
MaxRuns == 2
\* Most records in the answer section of a reply.
MaxAnswers == 2

\* ------------------------------------------------------------- constants
\* get_worker_count accepts 1..500.
WorkerCap == 500
\* write_header writes three header lines.
HeaderLines == 3

None == -1

\* The response times a measurement may give, in half milliseconds: 0.5 ms
\* is written "0" by ":.0f" and 1.5 ms is written "2".
Latencies == {1, 3}

\* ------------------------------------------------------------- addresses
IP_1_1_1_1 == << <<1>>, <<1>>, <<1>>, <<1>> >>
IP_8_8_8_8 == << <<8>>, <<8>>, <<8>>, <<8>> >>
\* matched by the pattern of load_servers, rejected by inet_aton ("08" is
\* not an octal number)
IP_1_1_1_08 == << <<1>>, <<1>>, <<1>>, <<0, 8>> >>
\* not matched by the pattern of load_servers
IP_999_1_1_1 == << <<9, 9, 9>>, <<1>>, <<1>>, <<1>> >>

\* The address-like tokens an input file is made of.
Tokens == {IP_1_1_1_1, IP_8_8_8_8, IP_1_1_1_08, IP_999_1_1_1}

RECURSIVE Pow(_, _)
Pow(b, e) == IF e = 0 THEN 1 ELSE b * Pow(b, e - 1)

RECURSIVE DigitsValue(_, _)
\* value of a digit sequence in the given base
DigitsValue(ds, base) ==
    IF ds = <<>> THEN 0
    ELSE DigitsValue(SubSeq(ds, 1, Len(ds) - 1), base) * base + ds[Len(ds)]

\* One octet of ip_pattern: 25[0-5] | 2[0-4][0-9] | [01]?[0-9][0-9]?
OctetMatches(p) ==
    \/ Len(p) \in {1, 2}
    \/ /\ Len(p) = 3
       /\ \/ p[1] \in {0, 1}
          \/ p[1] = 2 /\ p[2] \in 0..4
          \/ p[1] = 2 /\ p[2] = 5 /\ p[3] \in 0..5

\* ip_pattern on one token: four octets separated by dots.
ip_pattern(tok) ==
    /\ Len(tok) = 4
    /\ \A k \in 1..4 : OctetMatches(tok[k])

\* A part as the C library reads it (base 0: a leading 0 means octal).
PartValue(p) ==
    IF Len(p) > 1 /\ p[1] = 0
    THEN IF \A k \in 2..Len(p) : p[k] \in 0..7
         THEN DigitsValue(p, 8) ELSE None
    ELSE DigitsValue(p, 10)

\* socket.inet_aton: 1 to 4 parts, every part but the last at most 255, the
\* last part filling the remaining bytes.
inet_aton(a) ==
    /\ Len(a) \in 1..4
    /\ \A k \in 1..Len(a) : PartValue(a[k]) # None
    /\ \A k \in 1..(Len(a) - 1) : PartValue(a[k]) <= 255
    /\ PartValue(a[Len(a)]) < Pow(256, 5 - Len(a))


\* ------------------------------------------------------------- load_servers
RECURSIVE findall(_)
\* ip_pattern.findall(content): the matching tokens, in file order
findall(content) ==
    IF content = <<>> THEN <<>>
    ELSE IF ip_pattern(Head(content))
         THEN <<Head(content)>> \o findall(Tail(content))
         ELSE findall(Tail(content))

Range(s) == {s[k] : k \in 1..Len(s)}

\* A bug of load_servers: servers = all_ips, duplicates kept.
list_all_ips(all_ips) == {all_ips}

\* list(set(all_ips)): the distinct addresses, in any order
list_set(all_ips) ==
    {s \in [1..Cardinality(Range(all_ips)) -> Range(all_ips)] :
        Range(s) = Range(all_ips)}

\* load_servers on a file that exists: the lists it may return.  With no
\* address in the file, create_sample_servers leaves the existing file alone
\* and the recursion ends in the "except Exception" branch, which returns [].
load_servers(content) ==
    IF findall(content) = <<>> THEN {<<>>} ELSE list_set(findall(content))

\* The input files of the model: up to MaxTokens tokens.
Contents == UNION {[1..n -> Tokens] : n \in 0..MaxTokens}

\* ------------------------------------------------------------- ledger lines
\* f"{response_time:.0f}" of a time given in half milliseconds: round half
\* to even.
Fmt0f(h) ==
    IF h % 2 = 0 THEN h \div 2
    ELSE IF (h \div 2) % 2 = 0 THEN h \div 2 ELSE (h \div 2) + 1

\* The three lines write_header writes, stamped with the run (its timestamp).
HeaderOf(r) == [k \in 1..HeaderLines |-> [kind |-> "header", n |-> k, run |-> r]]

\* The line real_time_save writes for f"{server} ({response_time:.0f}ms)".
DataLine(server, rtime, r) ==
    [kind |-> "data", server |-> server, ms |-> Fmt0f(rtime), run |-> r]

\* What a write that failed half way leaves behind.
PartialLine(r) == [kind |-> "partial", run |-> r]

\* A bug of real_time_save: the file opened with 'w'.
OpenWrite(old, line) == <<line>>

\* open(filepath, 'a'), write, close
OpenAppend(old, line) == Append(old, line)

\* A bug of write_header: the file opened with 'a'.
HeaderAppended(old, hdr) == old \o hdr

\* open(filepath, 'w'), three writes, close
HeaderWritten(old, hdr) == hdr


\* ------------------------------------------------------------- state
VARIABLES
    run,            \* which run of the program this is (1..MaxRuns)
    mpc,            \* where the main thread is in check_dns_servers
    servers,        \* the list load_servers returned
    workers,        \* get_worker_count()
    file_lock,      \* Free, Main, or the task that holds file_lock
    ledger,         \* the lines of working_dns.txt
    header_error,   \* write_header printed "Header write error"
    work_queue,     \* executor._work_queue: submitted tasks no thread has taken
    num_threads,    \* len(executor._threads)
    tpc,            \* per task: where its test_single_server call is
    response_time,  \* per task: the local response_time of a success
    saved,          \* per task: how its real_time_save call ended
    future,         \* per task: the state and result of its future
    yielded,        \* the futures as_completed has handed to the loop body
    working,        \* check_dns_servers's working list
    failed,         \* check_dns_servers's failed list
    report,         \* the summary check_dns_servers has printed, or NoReport
    exit_code,      \* the exit status of the process, None while it runs
    mock,           \* the reply a mocked resolver is set to give, or NoMock
    input_file,     \* dns_servers.txt where load_servers is followed step by step
    depth           \* the number of nested load_servers calls

vars == <<run, mpc, servers, workers, file_lock, ledger, header_error,
          work_queue, num_threads, tpc, response_time, saved, future,
          yielded, working, failed, report, exit_code, mock, input_file,
          depth>>

\* what the run of check_dns_servers never changes
scene == <<mock, input_file, depth>>

\* no summary was printed
NoReport ==
    [printed |-> FALSE, total |-> 0, working |-> 0, rate |-> 0, failed |-> 0,
     top_section |-> FALSE, top |-> <<>>, more |-> None]

\* the resolver is the real one: any reply may come
NoMock == [kind |-> "no mock", n |-> 0]

\* the input file is not followed (it exists and load_servers reads it once)
Unread == [state |-> "unread", content |-> <<>>]

\* dns_servers.txt does not exist
Missing == [state |-> "missing", content |-> <<>>]

\* dns_servers.txt exists and cannot be opened (PermissionError, ...)
Unreadable == [state |-> "unreadable", content |-> <<>>]

\* dns_servers.txt exists and holds the tokens of content
File(content) == [state |-> "file", content |-> content]

Free == <<"free">>
Main == <<"main">>
HeldBy(t) == <<"task", t>>

Tasks == 1..Len(servers)

\* The statuses test_single_server reports for a query that failed.
FailureStatus == {"NXDOMAIN", "TIMEOUT", "NO ANSWER", "DNS ERROR", "ERROR"}

Pending == [state |-> "pending"]

\* return success, (server, response_time), message
Returned(success, server, rtime, status) ==
    [state |-> "returned", success |-> success, server |-> server,
     response_time |-> rtime, status |-> status]

\* the call raised: future.result() raises
Raised == [state |-> "raised"]

\* The tasks a pool thread is executing.
InFlight == {t \in Tasks : tpc[t] \in {"running", "save", "append", "release", "return"}}

\* The tasks inside the "with file_lock" body of real_time_save.
InSection == {t \in Tasks : tpc[t] \in {"append", "release"}}

\* ------------------------------------------------------------- Init
\* A fresh process on a machine with no ledger file yet.
Init ==
    /\ run = 1
    /\ mpc = "load"
    /\ servers = <<>>
    /\ workers = 0
    /\ file_lock = Free
    /\ ledger = <<>>
    /\ header_error = FALSE
    /\ work_queue = <<>>
    /\ num_threads = 0
    /\ tpc = <<>>
    /\ response_time = <<>>
    /\ saved = <<>>
    /\ future = <<>>
    /\ yielded = {}
    /\ working = <<>>
    /\ failed = <<>>
    /\ report = NoReport
    /\ exit_code = None
    /\ mock = NoMock
    /\ input_file = Unread
    /\ depth = 0

\* ------------------------------------------------------------- main thread
\* A bug of check_dns_servers: the test of the empty list is missing.
never_empty(s) == FALSE

\* if not servers:
not_servers(s) == s = <<>>

\* servers = load_servers(filename); with no server, "No servers to test.
\* Exiting." and return []: main prints "Testing complete!" and the process
\* ends with status 0.
LoadServers ==
    /\ mpc = "load"
    /\ \E content \in Contents : \E s \in load_servers(content) :
          /\ servers' = s
          /\ mpc' = IF not_servers(s) THEN "exit" ELSE "config"
          /\ exit_code' = IF not_servers(s) THEN 0 ELSE exit_code
          /\ tpc' = [t \in 1..Len(s) |-> "unsubmitted"]
          /\ response_time' = [t \in 1..Len(s) |-> None]
          /\ saved' = [t \in 1..Len(s) |-> "none"]
          /\ future' = [t \in 1..Len(s) |-> Pending]
    /\ UNCHANGED <<scene, report, run, workers, file_lock, ledger, header_error, work_queue,
                   num_threads, yielded, working, failed>>

\* workers = get_worker_count(): 1..500
GetWorkerCount ==
    /\ mpc = "config"
    /\ \E w \in 1..WorkerCap :
          /\ w <= MaxWorkers
          /\ workers' = w
    /\ mpc' = "header"
    /\ UNCHANGED <<scene, report, exit_code, run, servers, file_lock, ledger, header_error, work_queue,
                   num_threads, tpc, response_time, saved, future, yielded,
                   working, failed>>

\* A bug of the lock: acquired without waiting for it to be free.
LockTaken(holder) == TRUE

\* file_lock.acquire() returns only when nobody holds the lock
LockFree(holder) == holder = Free

\* write_header: with file_lock
WriteHeaderAcquire ==
    /\ mpc = "header"
    /\ LockFree(file_lock)
    /\ file_lock' = Main
    /\ mpc' = "header_open"
    /\ UNCHANGED <<scene, report, exit_code, run, servers, workers, ledger, header_error, work_queue,
                   num_threads, tpc, response_time, saved, future, yielded,
                   working, failed>>

\* write_header: open 'w', the three writes and the close succeed
WriteHeaderOk ==
    /\ mpc = "header_open"
    /\ ledger' = HeaderWritten(ledger, HeaderOf(run))
    /\ mpc' = "header_release"
    /\ UNCHANGED <<scene, report, exit_code, run, servers, workers, file_lock, header_error, work_queue,
                   num_threads, tpc, response_time, saved, future, yielded,
                   working, failed>>

\* write_header: "Header write error".  Either the open failed and the file
\* is as it was, or the file was truncated and fewer than three lines made it.
WriteHeaderError ==
    /\ mpc = "header_open"
    /\ \/ ledger' = ledger
       \/ \E k \in 0..(HeaderLines - 1) :
             ledger' = HeaderWritten(ledger, SubSeq(HeaderOf(run), 1, k))
    /\ header_error' = TRUE
    /\ mpc' = "header_release"
    /\ UNCHANGED <<scene, report, exit_code, run, servers, workers, file_lock, work_queue,
                   num_threads, tpc, response_time, saved, future, yielded,
                   working, failed>>

\* write_header: leaving "with file_lock"
WriteHeaderRelease ==
    /\ mpc = "header_release"
    /\ file_lock' = Free
    /\ mpc' = "submit"
    /\ UNCHANGED <<scene, report, exit_code, run, servers, workers, ledger, header_error, work_queue,
                   num_threads, tpc, response_time, saved, future, yielded,
                   working, failed>>

\* A bug of the pool: a thread per submitted task.
MaySpawnAlways(n, max_workers) == TRUE

\* _adjust_thread_count: a new thread only below max_workers
MaySpawn(n, max_workers) == n < max_workers

\* executor.submit(test_single_server, server, domain, timeout) for the next
\* server of the list.  The pool starts a thread unless one is idle.
Submit ==
    /\ mpc = "submit"
    /\ \E t \in Tasks :
          /\ tpc[t] = "unsubmitted"
          /\ \A u \in 1..(t - 1) : tpc[u] # "unsubmitted"
          /\ tpc' = [tpc EXCEPT ![t] = "queued"]
          /\ work_queue' = Append(work_queue, t)
          /\ \/ /\ MaySpawn(num_threads, workers)
                /\ num_threads' = num_threads + 1
             \/ /\ \/ num_threads > Cardinality(InFlight)
                   \/ ~MaySpawn(num_threads, workers)
                /\ num_threads' = num_threads
          /\ mpc' = IF t = Len(servers) THEN "collect" ELSE "submit"
    /\ UNCHANGED <<scene, report, exit_code, run, servers, workers, file_lock, ledger, header_error,
                   response_time, saved, future, yielded, working, failed>>

\* A bug of the crash handler: the wrong server looked up.
first_server(t) == servers[1]

\* future_to_server[future]
future_to_server(t) == servers[t]

\* A bug of the loop: "for future in future_to_server", which waits for the
\* futures in the order they were submitted.
in_submission_order(t) ==
    /\ tpc[t] = "finished"
    /\ t \notin yielded
    /\ \A u \in 1..(t - 1) : u \in yielded

\* as_completed hands out any future that is done and was not handed out yet
as_completed_yields(t) ==
    /\ tpc[t] = "finished"
    /\ t \notin yielded

\* The loop body for a future whose result() returns.
CollectResult(t) ==
    /\ mpc = "collect"
    /\ as_completed_yields(t)
    /\ future[t].state = "returned"
    /\ yielded' = yielded \cup {t}
    /\ IF future[t].success
       THEN /\ working' = Append(working, <<future[t].server, future[t].response_time>>)
            /\ failed' = failed
       ELSE /\ failed' = Append(failed, future[t].server)
            /\ working' = working
    /\ UNCHANGED <<scene, report, exit_code, run, mpc, servers, workers, file_lock, ledger, header_error,
                   work_queue, num_threads, tpc, response_time, saved, future>>

\* The loop body for a future whose result() raises: "CRASH".
CollectCrash(t) ==
    /\ mpc = "collect"
    /\ as_completed_yields(t)
    /\ future[t].state = "raised"
    /\ yielded' = yielded \cup {t}
    /\ failed' = Append(failed, future_to_server(t))
    /\ UNCHANGED <<scene, report, exit_code, run, mpc, servers, workers, file_lock, ledger, header_error,
                   work_queue, num_threads, tpc, response_time, saved, future,
                   working>>

\* A bug of the loop: it stops at the first outcome.
first_completed(done) == done # {}

\* as_completed(future_to_server) is exhausted: every future was yielded
as_completed_done(done) == done = Tasks

\* The loop ends and the "with ThreadPoolExecutor" block is left:
\* shutdown(wait=True) returns when no thread is executing a task.
ExitPool ==
    /\ mpc = "collect"
    /\ as_completed_done(yielded)
    /\ \A t \in Tasks : tpc[t] = "finished"
    /\ mpc' = "report"
    /\ UNCHANGED <<scene, report, exit_code, run, servers, workers, file_lock, ledger, header_error,
                   work_queue, num_threads, tpc, response_time, saved, future,
                   yielded, working, failed>>

\* f"{success_rate:.1f}" of n / d * 100, in tenths of a percent: round half
\* to even.
Fmt1f(n, d) ==
    LET q == (n * 1000) \div d
        r == (n * 1000) % d
    IN IF 2 * r < d THEN q
       ELSE IF 2 * r > d THEN q + 1
       ELSE IF q % 2 = 0 THEN q ELSE q + 1

\* success_rate = (len(working) / len(servers) * 100) if servers else 0
success_rate(w, s) == IF s # <<>> THEN Fmt1f(Len(w), Len(s)) ELSE 0

\* A bug of the sort: an entry goes in front of the entries of its latency.
before_smaller_only(a, x) == a[2] < x[2]

\* key=lambda x: x[1]: the entries that stay in front of x, which comes
\* later in the list, are those whose response time is not larger.
key_not_larger(a, x) == a[2] <= x[2]

\* sorted(working, key=lambda x: x[1]): a stable sort, as an insertion of
\* each entry behind the entries that stay in front of it.
RECURSIVE sorted(_)
sorted(w) ==
    IF w = <<>> THEN <<>>
    ELSE LET front == sorted(SubSeq(w, 1, Len(w) - 1))
             x == w[Len(w)]
             p == Cardinality({i \in 1..Len(front) : key_not_larger(front[i], x)})
         IN SubSeq(front, 1, p) \o <<x>> \o SubSeq(front, p + 1, Len(front))

\* The lines "  {i}. {server_ip:<15} {response_time:.0f}ms" of sorted_working[:5].
top5(w) ==
    LET sorted_working == sorted(w)
        k == IF Len(w) < 5 THEN Len(w) ELSE 5
    IN [i \in 1..k |-> [server |-> sorted_working[i][1],
                        ms |-> Fmt0f(sorted_working[i][2])]]

\* What the summary of check_dns_servers prints.
Summary ==
    [printed |-> TRUE,
     total |-> Len(servers),
     working |-> Len(working),
     rate |-> success_rate(working, servers),
     failed |-> Len(failed),
     top_section |-> working # <<>>,
     top |-> IF working # <<>> THEN top5(working) ELSE <<>>,
     more |-> IF working # <<>> /\ Len(working) > 5 THEN Len(working) - 5 ELSE None]

\* The summary is printed and working returned; main prints "Testing
\* complete!" and the process ends with status 0.
Report ==
    /\ mpc = "report"
    /\ mpc' = "done"
    /\ report' = Summary
    /\ exit_code' = 0
    /\ UNCHANGED <<scene, run, servers, workers, file_lock, ledger, header_error,
                   work_queue, num_threads, tpc, response_time, saved, future,
                   yielded, working, failed>>

\* The program is started again: a new process, the same ledger file.
Restart ==
    /\ mpc \in {"done", "exit"}
    /\ run < MaxRuns
    /\ run' = run + 1
    /\ mpc' = "load"
    /\ servers' = <<>>
    /\ workers' = 0
    /\ file_lock' = Free
    /\ header_error' = FALSE
    /\ work_queue' = <<>>
    /\ num_threads' = 0
    /\ tpc' = <<>>
    /\ response_time' = <<>>
    /\ saved' = <<>>
    /\ future' = <<>>
    /\ yielded' = {}
    /\ working' = <<>>
    /\ failed' = <<>>
    /\ report' = NoReport
    /\ exit_code' = None
    /\ UNCHANGED <<ledger, scene>>


\* ------------------------------------------------------------- probe tasks
\* A pool thread that is executing nothing takes the oldest work item.
StartProbe(t) ==
    /\ work_queue # <<>>
    /\ Head(work_queue) = t
    /\ Cardinality(InFlight) < num_threads
    /\ work_queue' = Tail(work_queue)
    /\ tpc' = [tpc EXCEPT ![t] = "running"]
    /\ UNCHANGED <<scene, report, exit_code, run, mpc, servers, workers, file_lock, ledger, header_error,
                   num_threads, response_time, saved, future, yielded, working,
                   failed>>

Finish(t, result) ==
    /\ tpc' = [tpc EXCEPT ![t] = "finished"]
    /\ future' = [future EXCEPT ![t] = result]

\* socket.inet_aton(server) raises: return False, (server, None), "INVALID IP"
ProbeInvalid(t) ==
    /\ tpc[t] = "running"
    /\ ~inet_aton(servers[t])
    /\ Finish(t, Returned(FALSE, servers[t], None, "INVALID IP"))
    /\ UNCHANGED <<scene, report, exit_code, run, mpc, servers, workers, file_lock, ledger, header_error,
                   work_queue, num_threads, response_time, saved, yielded,
                   working, failed>>

\* An exception between inet_aton and the try block (building the resolver,
\* setting its nameservers) is caught nowhere in test_single_server.
ProbeCrash(t) ==
    /\ tpc[t] = "running"
    /\ inet_aton(servers[t])
    /\ Finish(t, Raised)
    /\ UNCHANGED <<scene, report, exit_code, run, mpc, servers, workers, file_lock, ledger, header_error,
                   work_queue, num_threads, response_time, saved, yielded,
                   working, failed>>

\* What the server queried may send back: an answer section of n records,
\* "no such domain", nothing at all, a failure code, or something unforeseen.
Replies ==
    {[kind |-> "answers", n |-> k] : k \in 0..MaxAnswers} \cup
    {[kind |-> k, n |-> 0] : k \in {"nxdomain", "silence", "servfail", "unexpected"}}

\* resolver.resolve(domain, 'A'): the answers, or the exception raised.  An
\* answer section without a record raises NoAnswer.
resolve(reply) ==
    CASE reply.kind = "answers" /\ reply.n >= 1 -> [raised |-> "none", n |-> reply.n]
      [] reply.kind = "answers" /\ reply.n = 0 -> [raised |-> "NoAnswer", n |-> 0]
      [] reply.kind = "nxdomain" -> [raised |-> "NXDOMAIN", n |-> 0]
      [] reply.kind = "silence" -> [raised |-> "LifetimeTimeout", n |-> 0]
      [] reply.kind = "servfail" -> [raised |-> "NoNameservers", n |-> 0]
      [] OTHER -> [raised |-> "OSError", n |-> 0]

\* the classes an exception is an instance of
Bases(exc) ==
    CASE exc = "NXDOMAIN" -> {"NXDOMAIN", "DNSException", "Exception"}
      [] exc = "LifetimeTimeout" -> {"LifetimeTimeout", "Timeout", "DNSException", "Exception"}
      [] exc = "NoAnswer" -> {"NoAnswer", "DNSException", "Exception"}
      [] exc = "NoNameservers" -> {"NoNameservers", "DNSException", "Exception"}
      [] OTHER -> {exc, "Exception"}

\* A bug of test_single_server: "except DNSException" written first.
handlers_general_first ==
    << <<"DNSException", "DNS ERROR">>,
       <<"NXDOMAIN", "NXDOMAIN">>,
       <<"Timeout", "TIMEOUT">>,
       <<"NoAnswer", "NO ANSWER">>,
       <<"Exception", "ERROR">> >>

\* the except clauses of test_single_server, in their order
handlers ==
    << <<"NXDOMAIN", "NXDOMAIN">>,
       <<"Timeout", "TIMEOUT">>,
       <<"NoAnswer", "NO ANSWER">>,
       <<"DNSException", "DNS ERROR">>,
       <<"Exception", "ERROR">> >>

\* the status of the first except clause that matches the exception
except_status(exc) ==
    LET matching == {k \in 1..Len(handlers) : handlers[k][1] \in Bases(exc)}
        first == CHOOSE k \in matching : \A j \in matching : k <= j
    IN  handlers[first][2]

\* The status test_single_server reports for a reply: the try body reads
\* answers[0], which raises IndexError on an answer without a record.
test_status(reply) ==
    LET r == resolve(reply)
    IN  IF r.raised # "none" THEN except_status(r.raised)
        ELSE IF r.n = 0 THEN except_status("IndexError")
        ELSE "OK"

\* resolver.resolve raises: one of the five except branches returns False
ProbeFail(t) ==
    /\ tpc[t] = "running"
    /\ inet_aton(servers[t])
    /\ \E reply \in Replies : \E rtime \in Latencies :
          /\ mock # NoMock => reply = mock
          /\ test_status(reply) \in FailureStatus
          /\ Finish(t, Returned(FALSE, servers[t], rtime, test_status(reply)))
    /\ UNCHANGED <<scene, report, exit_code, run, mpc, servers, workers, file_lock, ledger, header_error,
                   work_queue, num_threads, response_time, saved, yielded,
                   working, failed>>

\* A bug of test_single_server: the result returned without saving it.
ReturnAtOnce == "return"

\* after the answer, real_time_save(server_info) is called
CallRealTimeSave == "save"

\* resolver.resolve returns answers; response_time is measured
ProbeAnswer(t) ==
    /\ tpc[t] = "running"
    /\ inet_aton(servers[t])
    /\ \E reply \in Replies : \E rtime \in Latencies :
          /\ mock # NoMock => reply = mock
          /\ test_status(reply) = "OK"
          /\ response_time' = [response_time EXCEPT ![t] = rtime]
    /\ tpc' = [tpc EXCEPT ![t] = CallRealTimeSave]
    /\ UNCHANGED <<scene, report, exit_code, run, mpc, servers, workers, file_lock, ledger, header_error,
                   work_queue, num_threads, saved, future, yielded, working,
                   failed>>

\* real_time_save: with file_lock
SaveAcquire(t) ==
    /\ tpc[t] = "save"
    /\ LockFree(file_lock)
    /\ file_lock' = HeldBy(t)
    /\ tpc' = [tpc EXCEPT ![t] = "append"]
    /\ UNCHANGED <<scene, report, exit_code, run, mpc, servers, workers, ledger, header_error,
                   work_queue, num_threads, response_time, saved, future,
                   yielded, working, failed>>

\* real_time_save: open 'a', write and close succeed
SaveAppendOk(t) ==
    /\ tpc[t] = "append"
    /\ ledger' = OpenAppend(ledger, DataLine(servers[t], response_time[t], run))
    /\ saved' = [saved EXCEPT ![t] = "ok"]
    /\ tpc' = [tpc EXCEPT ![t] = "release"]
    /\ UNCHANGED <<scene, report, exit_code, run, mpc, servers, workers, file_lock, header_error,
                   work_queue, num_threads, response_time, future, yielded,
                   working, failed>>

\* real_time_save: "Real-time save error".  Either nothing was written or a
\* part of the line was.
SaveAppendError(t) ==
    /\ tpc[t] = "append"
    /\ \/ ledger' = ledger
       \/ ledger' = OpenAppend(ledger, PartialLine(run))
    /\ saved' = [saved EXCEPT ![t] = "error"]
    /\ tpc' = [tpc EXCEPT ![t] = "release"]
    /\ UNCHANGED <<scene, report, exit_code, run, mpc, servers, workers, file_lock, header_error,
                   work_queue, num_threads, response_time, future, yielded,
                   working, failed>>

\* A bug of real_time_save: acquire and release by hand, the release skipped
\* when the write raised.
lock_kept_on_error(t) == IF saved[t] = "error" THEN HeldBy(t) ELSE Free

\* "with file_lock" releases the lock however its body ends: the try/except
\* is inside the body.
lock_released(t) == Free

\* real_time_save: leaving "with file_lock"
SaveRelease(t) ==
    /\ tpc[t] = "release"
    /\ file_lock' = lock_released(t)
    /\ tpc' = [tpc EXCEPT ![t] = "return"]
    /\ UNCHANGED <<scene, report, exit_code, run, mpc, servers, workers, ledger, header_error,
                   work_queue, num_threads, response_time, saved, future,
                   yielded, working, failed>>

\* A bug of real_time_save: no try/except, so that a failed write reaches the
\* "except Exception" branch of test_single_server.
ResultUnlessSaveError(t) ==
    IF saved[t] = "error"
    THEN Returned(FALSE, servers[t], response_time[t], "ERROR")
    ELSE Returned(TRUE, servers[t], response_time[t], "OK")

\* return True, result, message
SuccessResult(t) == Returned(TRUE, servers[t], response_time[t], "OK")

ProbeReturn(t) ==
    /\ tpc[t] = "return"
    /\ Finish(t, SuccessResult(t))
    /\ UNCHANGED <<scene, report, exit_code, run, mpc, servers, workers, file_lock, ledger, header_error,
                   work_queue, num_threads, response_time, saved, yielded,
                   working, failed>>

\* ------------------------------------------------------------- specification
\* One run of the program.
Next ==
    \/ LoadServers
    \/ GetWorkerCount
    \/ WriteHeaderAcquire
    \/ WriteHeaderOk
    \/ WriteHeaderError
    \/ WriteHeaderRelease
    \/ Submit
    \/ \E t \in Tasks : StartProbe(t)
    \/ \E t \in Tasks : ProbeInvalid(t)
    \/ \E t \in Tasks : ProbeCrash(t)
    \/ \E t \in Tasks : ProbeFail(t)
    \/ \E t \in Tasks : ProbeAnswer(t)
    \/ \E t \in Tasks : SaveAcquire(t)
    \/ \E t \in Tasks : SaveAppendOk(t)
    \/ \E t \in Tasks : SaveAppendError(t)
    \/ \E t \in Tasks : SaveRelease(t)
    \/ \E t \in Tasks : ProbeReturn(t)
    \/ \E t \in Tasks : CollectResult(t)
    \/ \E t \in Tasks : CollectCrash(t)
    \/ ExitPool
    \/ Report

Spec == Init /\ [][Next]_vars

\* Up to MaxRuns runs in succession on the same ledger file.
NextRuns == Next \/ Restart

SpecRuns == Init /\ [][NextRuns]_vars

\* ------------------------------------------------------------- vocabulary
\* how often x occurs in the sequence s
Count(s, x) == Cardinality({k \in 1..Len(s) : s[k] = x})

\* the servers of the entries of working
WorkingServers == [k \in 1..Len(working) |-> working[k][1]]

IsPrefix(s, t) == Len(s) <= Len(t) /\ SubSeq(t, 1, Len(s)) = s

\* the as_completed loop has ended
LoopEnded == mpc \in {"report", "done"}

\* the write_header step of this run is over
HeaderStepDone == mpc \in {"submit", "collect", "report", "done"}

\* the ledger holds the line "<server> (<ms>ms)" for this entry of working
HasLine(entry) ==
    \E k \in 1..Len(ledger) :
        /\ ledger[k].kind = "data"
        /\ ledger[k].server = entry[1]
        /\ ledger[k].ms = Fmt0f(entry[2])


\* the task that probes the server of this entry of working
TasksOf(server) == {t \in Tasks : servers[t] = server}

\* the data lines this run has put in the ledger
RunDataLines == {k \in 1..Len(ledger) : ledger[k].kind = "data" /\ ledger[k].run = run}

\* ------------------------------------------------------------- claims
\* C1: load_servers returns each candidate once, one task is submitted per
\* candidate, no candidate is ever in working or failed twice or in both, and
\* when the as_completed loop has ended every candidate is in exactly one of
\* them, so that len(working) + len(failed) = len(servers).
C1_OneOutcomePerCandidate ==
    /\ \A t, u \in Tasks : servers[t] = servers[u] => t = u
    /\ \A a \in Range(servers) : Count(WorkingServers, a) + Count(failed, a) <= 1
    /\ mpc \in {"collect", "report", "done"} => \A t \in Tasks : tpc[t] # "unsubmitted"
    /\ LoopEnded =>
          /\ \A a \in Range(servers) : Count(WorkingServers, a) + Count(failed, a) = 1
          /\ Len(working) + Len(failed) = Len(servers)

\* a finished run of two candidates on one worker, one working, one failed
C1_Witness ==
    /\ mpc = "done"
    /\ Len(servers) = 2
    /\ workers = 1
    /\ Len(working) = 1
    /\ Len(failed) = 1

\* C2: at no time are more than workers calls of test_single_server started
\* and not yet returned.
C2_AtMostWorkersInFlight == Cardinality(InFlight) <= workers

\* every worker is busy and a submitted candidate is waiting for one
C2_Witness ==
    /\ workers >= 1
    /\ Cardinality(InFlight) = workers
    /\ work_queue # <<>>

\* C3: at most one thread is inside the open+write+close section guarded by
\* file_lock, the holder of the lock is that thread, and the real_time_save
\* calls whose write succeeded have left exactly one complete line each.
C3_AppendsMutuallyExclusive ==
    /\ Cardinality(InSection) + (IF mpc \in {"header_open", "header_release"} THEN 1 ELSE 0) <= 1
    /\ \A t \in InSection : file_lock = HeldBy(t)
    /\ Cardinality(RunDataLines) = Cardinality({t \in Tasks : saved[t] = "ok"})
    /\ \A t \in Tasks : saved[t] = "ok" =>
          Cardinality({k \in RunDataLines :
                          ledger[k] = DataLine(servers[t], response_time[t], run)}) = 1

\* one call has written its line and still holds the lock, another waits
C3_Witness ==
    \E t, u \in Tasks :
        /\ tpc[t] = "release"
        /\ saved[t] = "ok"
        /\ tpc[u] = "save"

\* C4 as stated: after the run, every entry of working has its line in the
\* ledger.
C4_Original == mpc = "done" => \A k \in 1..Len(working) : HasLine(working[k])

\* C4 amended: after the run, every entry of working whose real_time_save
\* did not fail has its line "<ip> (<latency>ms)" in the ledger.
C4_SavedSuccessHasLine ==
    mpc = "done" =>
        \A k \in 1..Len(working) :
            (\A t \in TasksOf(working[k][1]) : saved[t] = "ok") => HasLine(working[k])

\* two successes saved, one of them with a latency that is rounded
C4_Witness ==
    /\ mpc = "done"
    /\ Len(working) = 2
    /\ \A t \in Tasks : saved[t] = "ok"
    /\ \E k \in 1..2 : working[k][2] % 2 = 1

\* C5: a failed ledger append is only reported: the lock is released, the
\* call still returns success, the outcome is added to working and not to
\* failed, and the loop goes on to consume every other outcome.
C5_SaveErrorNotFatal ==
    \A t \in Tasks : saved[t] = "error" =>
        /\ tpc[t] \in {"return", "finished"} => file_lock # HeldBy(t)
        /\ tpc[t] = "finished" =>
              /\ future[t].state = "returned"
              /\ future[t].success
        /\ t \in yielded =>
              /\ Count(WorkingServers, servers[t]) = 1
              /\ Count(failed, servers[t]) = 0
        /\ LoopEnded => yielded = Tasks

\* a finished run in which one append failed and another succeeded after it
C5_Witness ==
    /\ mpc = "done"
    /\ \E t, u \in Tasks :
          /\ saved[t] = "error"
          /\ saved[u] = "ok"
          /\ Len(working) = 2
          /\ working[1][1] = servers[t]


\* C6 as stated: in a second run, once the write_header step is over, the
\* ledger holds no line of the first run.
C6_Original ==
    (run >= 2 /\ HeaderStepDone) => \A k \in 1..Len(ledger) : ledger[k].run = run

\* C6 amended: in a run whose write_header did not fail, once the
\* write_header step is over the ledger begins with the header of this run
\* and holds no line of an earlier run, and at the end of the run every data
\* line is the line of a success of this run.
C6_HeaderTruncatesUnlessError ==
    (run >= 2 /\ HeaderStepDone /\ ~header_error) =>
        /\ IsPrefix(HeaderOf(run), ledger)
        /\ \A k \in 1..Len(ledger) : ledger[k].run = run
        /\ mpc = "done" =>
              \A k \in 1..Len(ledger) : ledger[k].kind = "data" =>
                  \E j \in 1..Len(working) :
                      /\ ledger[k].server = working[j][1]
                      /\ ledger[k].ms = Fmt0f(working[j][2])

\* the second run has ended with its own header and a data line
C6_Witness ==
    /\ run = 2
    /\ mpc = "done"
    /\ ~header_error
    /\ Len(ledger) > HeaderLines
    /\ ledger[Len(ledger)].kind = "data"

\* C7 as stated, its part on the header: once a probe task is submitted the
\* ledger begins with the header of this run, written once.
C7_Original ==
    (\E t \in Tasks : tpc[t] # "unsubmitted") =>
        /\ IsPrefix(HeaderOf(run), ledger)
        /\ Cardinality({k \in 1..Len(ledger) : ledger[k].kind = "header"}) = HeaderLines

\* C7 amended: within one run the ledger is append-only.  The header is
\* written at most once (once, unless the write fails), before any probe
\* task is submitted; from then on every later content of the ledger has
\* every earlier content as a prefix, and when the header was written its
\* lines come first and no other header line follows.
C7_AppendOnlyAfterHeader ==
    /\ [][HeaderStepDone => IsPrefix(ledger, ledger')]_vars
    /\ [][(\E t \in Tasks : tpc[t] # "unsubmitted") =>
             \A k \in 1..Len(ledger') :
                 (ledger'[k].kind = "header" => k <= Len(ledger) /\ ledger[k] = ledger'[k])]_vars
    /\ [](HeaderStepDone /\ ~header_error =>
             /\ IsPrefix(HeaderOf(run), ledger)
             /\ \A k \in 1..Len(ledger) : ledger[k].kind = "header" => k <= HeaderLines)

\* the header of this run followed by the lines of two successes
C7_Witness ==
    /\ HeaderStepDone
    /\ ~header_error
    /\ IsPrefix(HeaderOf(run), ledger)
    /\ Len(ledger) = HeaderLines + 2
    /\ \A k \in (HeaderLines + 1)..Len(ledger) : ledger[k].kind = "data"

\* C8: a server that is in working has had its real_time_save call completed
\* (the lock taken, the write attempted, the lock released).
C8_SaveBeforeAggregate ==
    \A k \in 1..Len(working) : \A t \in TasksOf(working[k][1]) :
        /\ saved[t] # "none"
        /\ tpc[t] = "finished"
        /\ file_lock # HeldBy(t)

\* a success is in working while another probe is still running
C8_Witness ==
    /\ Len(working) = 1
    /\ \E t \in Tasks : servers[t] = working[1][1] /\ saved[t] = "ok"
    /\ InFlight # {}

\* C9: a task that raised is recorded in failed, once and under its own
\* server, and not in working; the loop goes on, and every other task gets
\* the outcome of its own result.
C9_CrashIsolated ==
    /\ \A t \in yielded : future[t].state = "raised" =>
          /\ Count(failed, servers[t]) = 1
          /\ Count(WorkingServers, servers[t]) = 0
    /\ \A t \in yielded : future[t].state = "returned" =>
          /\ Count(WorkingServers, servers[t]) = (IF future[t].success THEN 1 ELSE 0)
          /\ Count(failed, servers[t]) = (IF future[t].success THEN 0 ELSE 1)
    /\ LoopEnded => yielded = Tasks

\* the second task raised, the first succeeded, and the run has ended
C9_Witness ==
    /\ mpc = "done"
    /\ Len(servers) = 2
    /\ future[2].state = "raised"
    /\ future[1].state = "returned"
    /\ future[1].success
    /\ Len(working) = 1

\* C10: the report is reached only when every submitted call has finished
\* with one outcome and the loop has consumed it; nothing is queued or
\* running.
C10_ReportAfterAllOutcomes ==
    LoopEnded =>
        /\ \A t \in Tasks : tpc[t] = "finished" /\ future[t].state # "pending"
        /\ yielded = Tasks
        /\ Len(working) + Len(failed) = Len(servers)
        /\ work_queue = <<>>
        /\ InFlight = {}

\* the report of a run of two candidates
C10_Witness ==
    /\ mpc = "report"
    /\ Len(servers) = 2
    /\ yielded = {1, 2}


\* C11: the loop consumes outcomes as they complete, not as they were
\* submitted: only finished futures are consumed, and whenever the loop is
\* running and a future is finished and not yet consumed, the loop can consume
\* it, whatever the state of the futures submitted before it.
C11_CompletionOrder ==
    /\ \A t \in yielded : tpc[t] = "finished"
    /\ \A t \in Tasks :
          (mpc = "collect" /\ tpc[t] = "finished" /\ t \notin yielded) =>
              ENABLED (CollectResult(t) \/ CollectCrash(t))

\* the outcome of the second task is consumed, the first is still running
C11_Witness ==
    /\ Len(servers) = 2
    /\ yielded = {2}
    /\ tpc[1] \in {"running", "save", "append", "release", "return"}
    /\ Len(working) + Len(failed) = 1


\* ------------------------------------------------------------- one probe
\* The addresses test_single_server is called with directly.
IP_1_1_1 == << <<1>>, <<1>>, <<1>> >>
IP_1_1 == << <<1>>, <<1>> >>

ProbeAddresses == Tokens \cup {IP_1_1_1, IP_1_1}

\* test_single_server(server, domain, timeout) called once, on its own, with
\* the resolver's reply fixed beforehand.
InitProbe ==
    /\ run = 1
    /\ mpc = "unit"
    /\ \E a \in ProbeAddresses : servers = <<a>>
    /\ workers = 1
    /\ file_lock = Free
    /\ ledger = <<>>
    /\ header_error = FALSE
    /\ work_queue = <<>>
    /\ num_threads = 1
    /\ tpc = <<"running">>
    /\ response_time = <<None>>
    /\ saved = <<"none">>
    /\ future = <<Pending>>
    /\ yielded = {}
    /\ working = <<>>
    /\ failed = <<>>
    /\ report = NoReport
    /\ exit_code = None
    /\ mock \in Replies
    /\ input_file = Unread
    /\ depth = 0

NextProbe ==
    \/ ProbeInvalid(1)
    \/ ProbeCrash(1)
    \/ ProbeFail(1)
    \/ ProbeAnswer(1)
    \/ SaveAcquire(1)
    \/ SaveAppendOk(1)
    \/ SaveAppendError(1)
    \/ SaveRelease(1)
    \/ ProbeReturn(1)

SpecProbe == InitProbe /\ [][NextProbe]_vars

\* a dotted quad: four decimal parts of one to three digits, each at most 255
DottedQuad(a) ==
    /\ Len(a) = 4
    /\ \A k \in 1..4 : Len(a[k]) \in 1..3 /\ DigitsValue(a[k], 10) <= 255

\* C12: for an address that is no dotted quad, test_single_server does
\* nothing but return the INVALID IP outcome with no latency: no resolver,
\* no query, no ledger write.
C12_NotDottedQuadIsInvalid ==
    \A t \in Tasks : ~DottedQuad(servers[t]) =>
        /\ tpc[t] \in {"unsubmitted", "queued", "running", "finished"}
        /\ tpc[t] = "finished" =>
              future[t] = Returned(FALSE, servers[t], None, "INVALID IP")
        /\ saved[t] = "none"
        /\ ledger = <<>>

MaxWorking == 6

IP_1_0_0_1 == << <<1>>, <<0>>, <<0>>, <<1>> >>
IP_8_8_4_4 == << <<8>>, <<8>>, <<4>>, <<4>> >>
IP_9_9_9_9 == << <<9>>, <<9>>, <<9>>, <<9>> >>
IP_208_67_222_222 == << <<2, 0, 8>>, <<6, 7>>, <<2, 2, 2>>, <<2, 2, 2>> >>
IP_208_67_220_220 == << <<2, 0, 8>>, <<6, 7>>, <<2, 2, 0>>, <<2, 2, 0>> >>
IP_4_2_2_1 == << <<4>>, <<2>>, <<2>>, <<1>> >>
IP_4_2_2_2 == << <<4>>, <<2>>, <<2>>, <<2>> >>

\* the list create_sample_servers writes
sample_servers ==
    <<IP_1_1_1_1, IP_1_0_0_1, IP_8_8_8_8, IP_8_8_4_4, IP_9_9_9_9,
      IP_208_67_222_222, IP_208_67_220_220, IP_4_2_2_1, IP_4_2_2_2>>

\* The state at the end of the loop of a run on the first n + f sample
\* servers with one worker: the first n answered with the latencies lat and
\* were saved, the last f timed out.
LoopLeft(n, f, lat) ==
    /\ run = 1
    /\ mpc = "report"
    /\ servers = SubSeq(sample_servers, 1, n + f)
    /\ workers = 1
    /\ file_lock = Free
    /\ ledger = HeaderOf(1) \o [i \in 1..n |-> DataLine(sample_servers[i], lat[i], 1)]
    /\ header_error = FALSE
    /\ work_queue = <<>>
    /\ num_threads = 1
    /\ tpc = [t \in 1..(n + f) |-> "finished"]
    /\ response_time = [t \in 1..(n + f) |-> IF t <= n THEN lat[t] ELSE None]
    /\ saved = [t \in 1..(n + f) |-> IF t <= n THEN "ok" ELSE "none"]
    /\ future = [t \in 1..(n + f) |->
                   IF t <= n THEN Returned(TRUE, sample_servers[t], lat[t], "OK")
                   ELSE Returned(FALSE, sample_servers[t], 1, "TIMEOUT")]
    /\ yielded = 1..(n + f)
    /\ working = [i \in 1..n |-> <<sample_servers[i], lat[i]>>]
    /\ failed = [i \in 1..f |-> sample_servers[n + i]]
    /\ report = NoReport
    /\ exit_code = None
    /\ mock = NoMock
    /\ input_file = Unread
    /\ depth = 0

InitReport ==
    \E n \in 0..MaxWorking : \E f \in 0..1 : \E lat \in [1..n -> Latencies] :
        /\ n + f >= 1
        /\ LoopLeft(n, f, lat)

NextReport == Report

SpecReport == InitReport /\ [][NextReport]_vars

\* The place of working[i] in the order "ascending by latency, equal
\* latencies in completion order".
Rank(i) ==
    1 + Cardinality({j \in 1..Len(working) :
                        \/ working[j][2] < working[i][2]
                        \/ working[j][2] = working[i][2] /\ j < i})

Min(a, b) == IF a < b THEN a ELSE b

\* C14: the top-5 section lists min(5, |working|) entries, the entries of
\* working in ascending order of latency with equal latencies in completion
\* order; the listed latencies never decrease, and with fewer than five
\* working servers all of them are listed and no "... more servers" line is
\* printed.
C14_TopFiveStableAscending ==
    report.printed =>
        /\ Len(report.top) = Min(5, Len(working))
        /\ \A i \in 1..Len(working) :
              Rank(i) <= 5 =>
                 report.top[Rank(i)] =
                    [server |-> working[i][1], ms |-> Fmt0f(working[i][2])]
        /\ \A k \in 1..(Len(report.top) - 1) : report.top[k].ms <= report.top[k + 1].ms
        /\ Len(working) < 5 =>
              /\ \A i \in 1..Len(working) :
                    \E k \in 1..Len(report.top) : report.top[k].server = working[i][1]
              /\ report.more = None

\* six working servers, the first slower than the last two, which are
\* equally fast: five are listed, the tie in completion order, one "more"
C14_Witness ==
    /\ report.printed
    /\ Len(working) = 6
    /\ working[1][2] > working[5][2]
    /\ working[5][2] = working[6][2]
    /\ Len(report.top) = 5
    /\ report.more = 1

\* C15 as stated: with no candidate, the summary is printed with total 0,
\* 0 percent and no top-5 section, and no error is raised.
C15_Original ==
    (servers = <<>> /\ mpc \in {"exit", "done"}) =>
        /\ report.printed
        /\ report.total = 0
        /\ report.rate = 0
        /\ ~report.top_section
        /\ exit_code = 0

\* C15: with no candidate the run ends at "No servers to test. Exiting.":
\* nothing is configured, written, probed or summarised, and the process
\* ends with status 0.
C15_EmptyEndsWithoutSummary ==
    (servers = <<>> /\ mpc # "load") =>
        /\ mpc = "exit"
        /\ report = NoReport
        /\ exit_code = 0
        /\ workers = 0
        /\ ledger = <<>>
        /\ file_lock = Free

\* load_servers returned the empty list and the run has ended
C15_Witness ==
    /\ servers = <<>>
    /\ mpc = "exit"
    /\ exit_code = 0
    /\ ~report.printed

\* ------------------------------------------------------------- load_servers alone
\* load_servers call by call: depth counts the calls of load_servers inside
\* load_servers, which the interpreter ends with RecursionError; MaxDepth
\* stands for its recursion limit.  MaxSample is the number of sample
\* servers the model's create_sample_servers writes.
MaxDepth == 3
MaxSample == 3

\* what create_sample_servers writes to a file that does not exist
SampleFile == File(SubSeq(sample_servers, 1, MaxSample))

\* create_sample_servers: an existing file is left alone (lines 30-31); a
\* missing one is written, or not if the write fails ("Error creating").
create_sample_servers(f) ==
    IF f.state = "missing" THEN {SampleFile, Missing} ELSE {f}

\* All the state but that of load_servers and of main's ending.
RunAside ==
    <<run, workers, file_lock, ledger, header_error, work_queue, num_threads,
      tpc, response_time, saved, future, yielded, working, failed, report, mock>>

\* the file is read and holds addresses: return servers
LoadFound ==
    /\ mpc = "open"
    /\ input_file.state = "file"
    /\ findall(input_file.content) # <<>>
    /\ \E s \in list_set(findall(input_file.content)) : servers' = s
    /\ mpc' = "returned"
    /\ UNCHANGED <<RunAside, exit_code, input_file, depth>>

\* open fails with another error than FileNotFoundError: "Error loading
\* servers", return []
LoadError ==
    /\ mpc = "open"
    /\ input_file.state = "unreadable"
    /\ servers' = <<>>
    /\ mpc' = "returned"
    /\ UNCHANGED <<RunAside, exit_code, input_file, depth>>

\* "No valid IPv4 addresses found. Creating sample file...": line 74, then
\* the call of line 75, inside the try
LoadNoAddress ==
    /\ mpc = "open"
    /\ input_file.state = "file"
    /\ findall(input_file.content) = <<>>
    /\ depth < MaxDepth
    /\ input_file' \in create_sample_servers(input_file)
    /\ depth' = depth + 1
    /\ UNCHANGED <<RunAside, exit_code, mpc, servers>>

\* the call of line 75 raises RecursionError inside the try: the clause
\* "except Exception" returns [], and so does every caller
LoadRecursionCaught ==
    /\ mpc = "open"
    /\ input_file.state = "file"
    /\ findall(input_file.content) = <<>>
    /\ depth = MaxDepth
    /\ servers' = <<>>
    /\ mpc' = "returned"
    /\ UNCHANGED <<RunAside, exit_code, input_file, depth>>

\* FileNotFoundError: line 81, then the call of line 82, inside the handler
LoadNotFound ==
    /\ mpc = "open"
    /\ input_file.state = "missing"
    /\ depth < MaxDepth
    /\ input_file' \in create_sample_servers(input_file)
    /\ depth' = depth + 1
    /\ UNCHANGED <<RunAside, exit_code, mpc, servers>>

\* the call of line 82 raises RecursionError inside the handler: no clause of
\* any caller catches it (they are all at line 82), main prints "Unexpected
\* error" and exits with status 1
LoadRecursionEscapes ==
    /\ mpc = "open"
    /\ input_file.state = "missing"
    /\ depth = MaxDepth
    /\ mpc' = "crashed"
    /\ exit_code' = 1
    /\ UNCHANGED <<RunAside, input_file, depth, servers>>

\* back in check_dns_servers: the test of line 219
LoadReturned ==
    /\ mpc = "returned"
    /\ mpc' = IF not_servers(servers) THEN "exit" ELSE "config"
    /\ exit_code' = IF not_servers(servers) THEN 0 ELSE exit_code
    /\ UNCHANGED <<RunAside, input_file, depth, servers>>

InitLoad ==
    /\ run = 1
    /\ mpc = "open"
    /\ servers = <<>>
    /\ workers = 0
    /\ file_lock = Free
    /\ ledger = <<>>
    /\ header_error = FALSE
    /\ work_queue = <<>>
    /\ num_threads = 0
    /\ tpc = <<>>
    /\ response_time = <<>>
    /\ saved = <<>>
    /\ future = <<>>
    /\ yielded = {}
    /\ working = <<>>
    /\ failed = <<>>
    /\ report = NoReport
    /\ exit_code = None
    /\ mock = NoMock
    /\ input_file \in {Missing, Unreadable} \cup {File(c) : c \in Contents}
    /\ depth = 0

NextLoad ==
    \/ LoadFound
    \/ LoadError
    \/ LoadNoAddress
    \/ LoadRecursionCaught
    \/ LoadNotFound
    \/ LoadRecursionEscapes
    \/ LoadReturned

SpecLoad == InitLoad /\ [][NextLoad]_vars

\* C16: when the input file yields no address (it is missing or holds none:
\* load_servers called itself, depth > 0), what load_servers returns is the
\* list of sample servers, each once.
C16_ZeroAddressesGiveFallback ==
    (mpc = "returned" /\ depth > 0) =>
        /\ Range(servers) = Range(SampleFile.content)
        /\ Len(servers) = Cardinality(Range(servers))

\* ------------------------------------------------------------- Ctrl-C
\* A bug of the pool: leaving the "with" block does not wait for the threads.
shutdown_nowait(t) == TRUE

\* ThreadPoolExecutor.__exit__ is shutdown(wait=True): it returns when every
\* submitted call has run to its end; a call not yet submitted never runs.
shutdown_wait(t) == tpc[t] \in {"unsubmitted", "finished"}

\* KeyboardInterrupt is raised in the main thread while it submits the calls
\* or waits in the as_completed loop: the loop is left, no outcome is
\* collected any more, the pool threads go on.
KeyboardInterrupt ==
    /\ mpc \in {"submit", "collect"}
    /\ mpc' = "interrupt"
    /\ UNCHANGED <<scene, report, exit_code, run, servers, workers, file_lock, ledger, header_error,
                   work_queue, num_threads, tpc, response_time, saved, future,
                   yielded, working, failed>>

\* A variant of main: the summary of the outcomes collected so far is
\* printed when the user interrupts.
summary_on_interrupt(r) == Summary

\* except KeyboardInterrupt: print("Interrupted by user") and nothing else;
\* what was printed of the summary stays what it was.
except_KeyboardInterrupt(r) == r

\* The exception leaves the "with ThreadPoolExecutor" block and
\* check_dns_servers; main prints "Interrupted by user" and returns: the
\* process ends with status 0.
InterruptedByUser ==
    /\ mpc = "interrupt"
    /\ \A t \in Tasks : shutdown_wait(t)
    /\ mpc' = "stopped"
    /\ exit_code' = 0
    /\ report' = except_KeyboardInterrupt(report)
    /\ UNCHANGED <<scene, run, servers, workers, file_lock, ledger, header_error,
                   work_queue, num_threads, tpc, response_time, saved, future,
                   yielded, working, failed>>

NextInterrupt ==
    \/ Next
    \/ KeyboardInterrupt
    \/ InterruptedByUser

\* One run of the program, which the user may interrupt.
SpecInterrupt == Init /\ [][NextInterrupt]_vars

\* the run was interrupted during probing
Interrupted == mpc \in {"interrupt", "stopped"}

\* the ledger is the complete header of this run followed by data lines only
WholeLedger ==
    /\ IsPrefix(HeaderOf(run), ledger)
    /\ \A k \in (HeaderLines + 1)..Len(ledger) : ledger[k].kind = "data"

\* no write to the ledger has failed in this run
NoWriteFailed == ~header_error /\ \A t \in Tasks : saved[t] # "error"

\* C17 as stated: an interrupted run ends with status 0 and its ledger is
\* the complete header followed only by whole data lines.
C17_Original ==
    /\ Interrupted => WholeLedger
    /\ mpc = "stopped" => exit_code = 0

\* C17: an interrupted run ends without an error status, when no pool thread
\* is inside a call any more; unless a write to the ledger has itself failed,
\* the ledger is at every moment after the interrupt the complete header
\* followed by one whole data line for each success saved so far.
C17_InterruptLeavesWholeLedger ==
    /\ mpc = "stopped" =>
          /\ exit_code = 0
          /\ file_lock = Free
          /\ \A t \in Tasks : tpc[t] \in {"unsubmitted", "finished"}
    /\ (Interrupted /\ NoWriteFailed) =>
          /\ WholeLedger
          /\ Len(ledger) = HeaderLines + Cardinality({t \in Tasks : saved[t] = "ok"})
          /\ \A t \in Tasks :
                saved[t] = "ok" => HasLine(<<servers[t], response_time[t]>>)

\* interrupted between the two submissions, the run has ended with the line
\* of the first candidate in the ledger
C17_Witness ==
    /\ mpc = "stopped"
    /\ NoWriteFailed
    /\ \E t \in Tasks : saved[t] = "ok"
    /\ \E t \in Tasks : tpc[t] = "unsubmitted"
    /\ Len(ledger) = HeaderLines + 1

\* C18 as stated: an interrupted run ends with status 0 and with the summary
\* of the outcomes collected so far printed.
C18_Original ==
    mpc = "stopped" =>
        /\ exit_code = 0
        /\ report.printed
        /\ report.working = Len(working)

\* C18: a user interruption during probing is a non-error end of the run
\* that prints no summary: once interrupted the run never collects another
\* outcome and never reaches the report, it ends with status 0 with nothing
\* of the summary printed, and what is left of the outcomes is the ledger.
C18_InterruptEndsWithoutSummary ==
    /\ [](Interrupted => report = NoReport)
    /\ [](mpc = "stopped" => exit_code = 0)
    /\ [][Interrupted =>
             /\ mpc' \in {"interrupt", "stopped"}
             /\ working' = working
             /\ failed' = failed]_vars

\* interrupted after the outcome of a success was collected, the run has
\* ended and no summary was printed
C18_Witness ==
    /\ mpc = "stopped"
    /\ working # <<>>
    /\ exit_code = 0
    /\ ~report.printed

\* the probe of task t has not ended as a failure and its server is not in
\* failed
NotFailed(t) ==
    /\ tpc[t] = "finished" => future[t].state = "returned" /\ future[t].success
    /\ \A k \in 1..Len(failed) : failed[k] # servers[t]

\* C19 as stated: once the header step of a run is over, every data line of
\* the ledger is the line of a candidate of the run whose probe does not end
\* as a failure, and no candidate has two data lines.
C19_Original ==
    HeaderStepDone =>
        /\ \A k \in 1..Len(ledger) :
              ledger[k].kind = "data" =>
                 \E t \in Tasks : servers[t] = ledger[k].server /\ NotFailed(t)
        /\ \A j, k \in 1..Len(ledger) :
              (/\ ledger[j].kind = "data"
               /\ ledger[k].kind = "data"
               /\ ledger[j].server = ledger[k].server) => j = k

\* C19: every data line a run writes is the line of a candidate whose probe
\* got an answer and returns success (it never ends in failed), and a run
\* writes at most one data line per candidate.  Data lines of an earlier run
\* are in the ledger as well when the header write of this run failed.
C19_RunLinesAreSuccessesOnce ==
    /\ \A k \in RunDataLines :
          \E t \in Tasks :
             /\ servers[t] = ledger[k].server
             /\ saved[t] = "ok"
             /\ ledger[k].ms = Fmt0f(response_time[t])
             /\ NotFailed(t)
    /\ \A j, k \in RunDataLines : ledger[j].server = ledger[k].server => j = k
    /\ \A t \in Tasks :
          (tpc[t] = "finished" /\ (future[t].state = "raised" \/ ~future[t].success)) =>
              \A k \in RunDataLines : ledger[k].server # servers[t]

\* the second run is over: its header write failed, the line of the first
\* run is still there, one candidate failed and the other has its line
C19_Witness ==
    /\ run = 2
    /\ mpc = "done"
    /\ header_error
    /\ Len(failed) = 1
    /\ Cardinality(RunDataLines) = 1
    /\ \E k \in 1..Len(ledger) : ledger[k].kind = "data" /\ ledger[k].run = 1

\* ------------------------------------------------------------- fair scheduling
\* the steps of the main thread
MainNext ==
    \/ LoadServers
    \/ GetWorkerCount
    \/ WriteHeaderAcquire
    \/ WriteHeaderOk
    \/ WriteHeaderError
    \/ WriteHeaderRelease
    \/ Submit
    \/ \E t \in Tasks : CollectResult(t)
    \/ \E t \in Tasks : CollectCrash(t)
    \/ ExitPool
    \/ Report

\* the steps of the pool thread that runs the call for servers[t]
TaskNext(t) ==
    /\ t \in Tasks
    /\ \/ StartProbe(t)
       \/ ProbeInvalid(t)
       \/ ProbeCrash(t)
       \/ ProbeFail(t)
       \/ ProbeAnswer(t)
       \/ SaveAcquire(t)
       \/ SaveAppendOk(t)
       \/ SaveAppendError(t)
       \/ SaveRelease(t)
       \/ ProbeReturn(t)

\* Every thread that can take a step is scheduled in the end, and every
\* query returns (an answer, an error or the timeout).
Fairness ==
    /\ WF_vars(MainNext)
    /\ \A t \in 1..MaxTokens : WF_vars(TaskNext(t))

\* One uninterrupted run under fair scheduling.
SpecFair == Init /\ [][Next]_vars /\ Fairness

\* the lock is held only by a thread inside a "with file_lock" body
HeldInsideWith ==
    /\ file_lock = Main => mpc \in {"header_open", "header_release"}
    /\ \A t \in Tasks : file_lock = HeldBy(t) => tpc[t] \in {"append", "release"}
    /\ file_lock # Free => file_lock = Main \/ \E t \in Tasks : file_lock = HeldBy(t)

\* C20: the lock is held only inside the with-blocks of write_header and
\* real_time_save and is free again after each of them, a failed write
\* included; under fair scheduling the main thread and every worker that
\* asks for the lock gets it, and a run with servers reaches the final
\* report.
C20_LockNeverBlocksRun ==
    /\ [] HeldInsideWith
    /\ (mpc = "header") ~> (mpc = "header_open")
    /\ \A t \in 1..MaxTokens :
          (t \in Tasks /\ tpc[t] = "save") ~> (t \in Tasks /\ tpc[t] = "append")
    /\ (mpc = "config") ~> (mpc = "done" /\ report.printed /\ file_lock = Free)

\* a worker asks for the lock while another, whose write has just failed,
\* still holds it
C20_Witness ==
    \E t, u \in Tasks :
        /\ tpc[t] = "save"
        /\ tpc[u] = "release"
        /\ saved[u] = "error"
        /\ file_lock = HeldBy(u)

====
